---- MODULE Spec2Model ----
(***************************************************************************)
(* Model of src/api/conversation.ts: the memory-augmented conversation     *)
(* handler.  Each request is one invocation of handler(); every `await`    *)
(* on the record store or on the generation API is one atomic step, and    *)
(* the invocations of different requests interleave at those steps.        *)
(*                                                                         *)
(* Strings are sequences of one-character strings, so that slice and trim  *)
(* are computed.  The wall clock is the number of requests received so     *)
(* far.  The record store never throws: a failed call returns data = null  *)
(* (supabase-js resolves with {data: null, error}).  The tables            *)
(* user_sessions and conversation_memory start empty; the catalog          *)
(* artwork_personalities is read-only.  The schema of the tables is not    *)
(* part of the handler's source: session_token is taken to be the unique   *)
(* key of user_sessions, created_at to be assigned by the store.           *)
(***************************************************************************)
EXTENDS Integers, Sequences, FiniteSets, TLC

(* ---------------------------- bounds ---------------------------------- *)
NumSlots == 2       \* invocations in flight at the same time (concurrent load)
SeqRequests == 3    \* requests received in one behaviour of the sequential load
FaultyRequests == 2 \* requests received in one behaviour of the faulty load
ConcRequests == 3   \* requests received in one behaviour of the concurrent load
MaxFaults == 1      \* store calls that fail in one behaviour
HistoryRequests == 12 \* requests received in one behaviour of the history load
LongRequests == 1   \* requests received in one behaviour of the long load
TopicRequests == 1  \* requests received in one behaviour of the topics load

(* ------------------------ program constants --------------------------- *)
MaxMessageLength == 5000   \* sanitizeInput's default maxLength
MemoryLimit == 10          \* .limit(10) of the conversation_memory query

Slots == 1..NumSlots

\* A nullable value is a sequence of length at most one: Null is JavaScript's
\* null / undefined, Some(x) a present value.
Null == <<>>
Some(x) == <<x>>
IsNull(o) == o = <<>>
Val(o) == o[1]

Min(a, b) == IF a < b THEN a ELSE b

(* --------------------------- input domains ---------------------------- *)
Methods == {"POST", "GET", "OPTIONS"}
Messages == { <<>>, <<"h", "i">>, <<" ", "a", " ">> }
PersonalityIds == {"", "P1", "P2", "PX"}
Tokens == {"t1", "t2"}

\* A parsed JSON body: `fields` are the keys present in the object; a key
\* that is absent reads as undefined, which is falsy like the empty string.
Body(f, m, p, t) ==
  [fields |-> f, message |-> m, personality_id |-> p, session_token |-> t]

AllFields == {"message", "personality_id", "session_token"}

\* bodies with both required fields: <<"h", "i">> for personality P1 on
\* session t1, the bodies that differ from it in one field, and bodies
\* without a session token
CompleteBodies ==
  { Body(AllFields, m, "P1", "t1") : m \in Messages \ {<<>>} }
  \cup { Body(AllFields, <<"h", "i">>, p, "t1") : p \in PersonalityIds \ {""} }
  \cup { Body(AllFields, <<"h", "i">>, "P1", t) : t \in Tokens }
  \cup { Body(AllFields \ {"session_token"}, <<"h", "i">>, p, "") :
           p \in {"P1", "PX"} }

\* bodies with a required field absent or empty
IncompleteBodies ==
  { Body(AllFields \ {"message"}, <<>>, "P1", "t1"),
    Body(AllFields, <<>>, "P1", "t1"),
    Body(AllFields \ {"personality_id"}, <<"h", "i">>, "", "t1"),
    Body(AllFields, <<"h", "i">>, "", "t1"),
    Body({}, <<>>, "", "") }

\* the body of every turn of a long conversation
HistoryBodies == { Body(AllFields, <<"h", "i">>, "P1", "t1") }

\* messages around sanitizeInput's maxLength, and one wrapped in a tab and a
\* line feed
Filled(n, c) == [i \in 1..n |-> c]
LongMessages ==
  { Filled(MaxMessageLength, "x") \o <<"y">>,
    <<" ", " ">> \o Filled(MaxMessageLength, "x"),
    Filled(MaxMessageLength - 1, "x") \o <<" ", "y">>,
    <<"\t", "a", "\n">> }
LongBodies == { Body(AllFields, m, "P1", "t1") : m \in LongMessages }

\* messages that name topics: in another order than the lexicon's, in upper
\* case, inside a longer word, twice, split by a space, between tabs and
\* line feeds
TopicMessages ==
  { << "I", " ", "l", "o", "v", "e", " ", "t", "h", "e", " ", "c", "o", "l",
      "o", "r", " ", "a", "n", "d", " ", "e", "m", "o", "t", "i", "o", "n",
      " ", "i", "n", " ", "t", "h", "i", "s", " ", "a", "r", "t" >>,
    << "H", "e", "a", "r", "t", " ", "o", "f", " ", "L", "i", "f", "e" >>,
    << "l", "i", "f", "e", " ", "a", "r", "t", " ", "a", "r", "t" >>,
    << "a", "r", " ", "t" >>,
    << "c", "o", "l", "o", "r", "s", "\t", "o", "f", "\n", "M", "E", "A", "N",
      "I", "N", "G" >> }
TopicBodies == { Body(AllFields, m, "P1", "t1") : m \in TopicMessages }

Bodies == CompleteBodies \cup IncompleteBodies

\* The load a behaviour is run under.  Sequential: one invocation at a time,
\* every method and body, a store that never fails.  Faulty: one invocation
\* at a time, POST requests with both required fields, store calls that may
\* fail.
\* Concurrent: overlapping invocations that all carry the same message,
\* personality and session token, a store that never fails and a generation
\* API that always answers with text.
\* History: one invocation at a time, a conversation with one personality
\* on one session, longer than the memory window, no failures.  Long: one invocation at a time,
\* messages longer than sanitizeInput's maxLength, no failures.  Topics: one
\* invocation at a time, messages that name topics, no failures.
Loads == {"sequential", "faulty", "concurrent", "history", "long", "topics"}
SlotsOf(load) == IF load = "concurrent" THEN NumSlots ELSE 1
RequestsOf(load) ==
  CASE load = "sequential" -> SeqRequests
    [] load = "faulty" -> FaultyRequests
    [] load = "concurrent" -> ConcRequests
    [] load = "history" -> HistoryRequests
    [] load = "long" -> LongRequests
    [] load = "topics" -> TopicRequests
FaultsOf(load) == IF load = "faulty" THEN MaxFaults ELSE 0
MethodsOf(load) == IF load = "sequential" THEN Methods ELSE {"POST"}
BodiesOf(load) ==
  CASE load = "sequential" -> {Null} \cup {Some(b) : b \in Bodies}
    [] load = "faulty" -> {Some(b) : b \in CompleteBodies}
    [] load = "concurrent" -> {Some(Body(AllFields, <<"h", "i">>, "P1", "t1"))}
    [] load = "history" -> {Some(b) : b \in HistoryBodies}
    [] load = "long" -> {Some(b) : b \in LongBodies}
    [] load = "topics" -> {Some(b) : b \in TopicBodies}

\* the loads in which nothing fails: the environment is complete and the
\* generation API answers with text
Unfailing(load) == load \in {"concurrent", "history", "long", "topics"}

\* the token `session_${Date.now()}_${random}` made for a request without one
GeneratedTokens == {"g1"}

\* artwork_personalities: read-only catalog.  P2 has no core_identity.
artwork_personalities ==
  { [id |-> "P1", gallery_item_id |-> "G1", title |-> "Dawn",
     personality_data |-> [core_identity |->
        Some([name |-> "Aurora", artistic_voice |-> "lyrical",
              personality_traits |-> <<"bold">>])]],
    [id |-> "P2", gallery_item_id |-> "G2", title |-> "Dusk",
     personality_data |-> [core_identity |-> Null]] }

\* What candidates?.[0]?.content?.parts?.[0]?.text may be: undefined, or a text
CandidateTexts == { Null, Some(<<" ">>), Some(<<"o", "k", " ">>) }
CandidatesOf(load) ==
  IF Unfailing(load) THEN {Some(<<"o", "k", " ">>)} ELSE CandidateTexts

(* --------------------------- pure helpers ----------------------------- *)
\* String.prototype.trim strips white space and line terminators
WhiteSpace == {" ", "\t", "\n", "\r"}
IsSpace(c) == c \in WhiteSpace

RECURSIVE TrimStart(_)
TrimStart(s) ==
  IF s = <<>> THEN <<>>
  ELSE IF IsSpace(Head(s)) THEN TrimStart(Tail(s)) ELSE s

RECURSIVE TrimEnd(_)
TrimEnd(s) ==
  IF s = <<>> THEN <<>>
  ELSE IF IsSpace(s[Len(s)]) THEN TrimEnd(SubSeq(s, 1, Len(s) - 1)) ELSE s

Trim(s) == TrimEnd(TrimStart(s))

Slice(s, n) == SubSeq(s, 1, Min(Len(s), n))

\* variant: the message is trimmed first and cut afterwards
sanitizeInput_trimFirst(input) == Slice(Trim(input), MaxMessageLength)

\* lines 52-54, with the default maxLength
sanitizeInput(input) == Trim(Slice(input, MaxMessageLength))

\* String.prototype.toLowerCase, on the letters A-Z
UpperCase ==
  << "A", "B", "C", "D", "E", "F", "G", "H", "I", "J", "K", "L", "M", "N",
     "O", "P", "Q", "R", "S", "T", "U", "V", "W", "X", "Y", "Z" >>
LowerCase ==
  << "a", "b", "c", "d", "e", "f", "g", "h", "i", "j", "k", "l", "m", "n",
     "o", "p", "q", "r", "s", "t", "u", "v", "w", "x", "y", "z" >>
LowerChar(c) ==
  IF \E i \in 1..26 : UpperCase[i] = c
  THEN LowerCase[CHOOSE i \in 1..26 : UpperCase[i] = c]
  ELSE c
toLowerCase(s) == [i \in 1..Len(s) |-> LowerChar(s[i])]

\* String.prototype.split(/\s+/): the runs of characters between runs of
\* white space, in order; a string that begins (ends) with white space, and
\* the empty string, give an empty first (last) piece
split(s) ==
  LET n == Len(s)
      starts == {i \in 1..n : ~IsSpace(s[i]) /\ (i = 1 \/ IsSpace(s[i - 1]))}
      ends == {j \in 1..n : ~IsSpace(s[j]) /\ (j = n \/ IsSpace(s[j + 1]))}
      start(k) == CHOOSE i \in starts : Cardinality({h \in starts : h < i}) = k - 1
      end(k) == CHOOSE j \in ends : Cardinality({h \in ends : h < j}) = k - 1
      pieces == [k \in 1..Cardinality(starts) |-> SubSeq(s, start(k), end(k))]
  IN IF n = 0 THEN << <<>> >>
     ELSE (IF IsSpace(s[1]) THEN << <<>> >> ELSE <<>>)
          \o pieces
          \o (IF IsSpace(s[n]) THEN << <<>> >> ELSE <<>>)

\* String.prototype.includes
includes(word, part) ==
  \E i \in 0..(Len(word) - Len(part)) :
    \A k \in 1..Len(part) : word[i + k] = part[k]

\* line 284
commonTopics ==
  << <<"a", "r", "t">>,
     <<"c", "r", "e", "a", "t", "i", "v", "i", "t", "y">>,
     <<"i", "n", "s", "p", "i", "r", "a", "t", "i", "o", "n">>,
     <<"c", "o", "l", "o", "r">>,
     <<"e", "m", "o", "t", "i", "o", "n">>,
     <<"b", "e", "a", "u", "t", "y">>,
     <<"m", "e", "a", "n", "i", "n", "g">>,
     <<"l", "i", "f", "e">>,
     <<"e", "x", "p", "r", "e", "s", "s", "i", "o", "n">> >>

\* variant: the words are matched as they were typed
extractTopics_caseSensitive(message) ==
  LET words == split(message)
  IN SelectSeq(commonTopics,
       LAMBDA topic : \E w \in 1..Len(words) : includes(words[w], topic))

\* lines 283-287
extractTopics(message) ==
  LET words == split(toLowerCase(message))
  IN SelectSeq(commonTopics,
       LAMBDA topic : \E w \in 1..Len(words) : includes(words[w], topic))

(* ---------------------------- record store --------------------------- *)
\* .single(): the row when exactly one row matches, else data = null
Single(rows) == IF Len(rows) = 1 THEN Some(rows[1]) ELSE Null

\* from('user_sessions').select('*').eq('session_token', tok)
SessionsWithToken(rows, tok) ==
  SelectSeq(rows, LAMBDA s : s.session_token = tok)

\* the select of lines 122-126; `fault` is a failed store call
selectSession(rows, tok, fault) ==
  IF fault THEN Null ELSE Single(SessionsWithToken(rows, tok))

\* session_token is the unique key of a session record: an insert of a
\* token that already has a record is rejected by the store
UniqueViolation(rows, tok) == SessionsWithToken(rows, tok) # <<>>

newSessionRow(tok, now) ==
  [session_token |-> tok, first_visit |-> now, last_active |-> now,
   total_conversations |-> 1]

\* variant: upsert in place of insert (the record of a known token is replaced)
insertSession_upsert(rows, row, fault) ==
  IF fault THEN rows
  ELSE IF UniqueViolation(rows, row.session_token)
  THEN [i \in 1..Len(rows) |->
          IF rows[i].session_token = row.session_token THEN row ELSE rows[i]]
  ELSE Append(rows, row)

\* the table after from('user_sessions').insert(row)
insertSession(rows, row, fault) ==
  IF fault \/ UniqueViolation(rows, row.session_token) THEN rows
  ELSE Append(rows, row)

\* the table after from('user_sessions').update(patch).eq('session_token', tok)
updateSession(rows, tok, now, total, fault) ==
  IF fault THEN rows
  ELSE [i \in 1..Len(rows) |->
          IF rows[i].session_token = tok
          THEN [rows[i] EXCEPT !.last_active = now,
                               !.total_conversations = total]
          ELSE rows[i]]

\* from('artwork_personalities').select(...).eq('id', pid).single()
selectPersonality(pid, fault) ==
  IF fault \/ ~(\E p \in artwork_personalities : p.id = pid) THEN Null
  ELSE Some(CHOOSE p \in artwork_personalities : p.id = pid)

\* .order('created_at', { ascending: false })
RECURSIVE OrderDesc(_)
OrderDesc(rows) ==
  IF rows = <<>> THEN <<>>
  ELSE LET i == CHOOSE k \in 1..Len(rows) :
                  \A j \in 1..Len(rows) : rows[j].created_at <= rows[k].created_at
           rest == [j \in 1..(Len(rows) - 1) |->
                      IF j < i THEN rows[j] ELSE rows[j + 1]]
       IN  <<rows[i]>> \o OrderDesc(rest)

\* variant: the query without .eq('personality_id', ...)
loadMemories_sessionOnly(rows, tok, pid, fault) ==
  IF fault THEN Null
  ELSE Some(Slice(OrderDesc(SelectSeq(rows,
              LAMBDA m : m.session_token = tok)),
            MemoryLimit))

\* variant: the query without .limit(10)
loadMemories_noLimit(rows, tok, pid, fault) ==
  IF fault THEN Null
  ELSE Some(OrderDesc(SelectSeq(rows,
              LAMBDA m : m.session_token = tok /\ m.personality_id = pid)))

\* the conversation_memory query of lines 160-166
loadMemories(rows, tok, pid, fault) ==
  IF fault THEN Null
  ELSE Some(Slice(OrderDesc(SelectSeq(rows,
              LAMBDA m : m.session_token = tok /\ m.personality_id = pid)),
            MemoryLimit))

\* variant: the insert replaces the stored row of the same session and
\* personality (an upsert on that pair)
insertMemory_upsert(rows, row, fault) ==
  LET same == {i \in 1..Len(rows) :
                 /\ rows[i].session_token = row.session_token
                 /\ rows[i].personality_id = row.personality_id}
      stored == [row EXCEPT !.created_at = Len(rows) + 1]
  IN IF fault THEN rows
     ELSE IF same = {} THEN Append(rows, stored)
     ELSE [rows EXCEPT ![CHOOSE i \in same : \A j \in same : j <= i] = stored]

\* the table after from('conversation_memory').insert(row); created_at is
\* assigned by the store, strictly increasing with insertion
insertMemory(rows, row, fault) ==
  IF fault THEN rows
  ELSE Append(rows, [row EXCEPT !.created_at = Len(rows) + 1])

(* --------------------------- prompt building -------------------------- *)
\* `User: ${m.user_message}\nAI: ${m.ai_response}`
RenderTurn(m) == [user |-> m.user_message, ai |-> m.ai_response]

\* memories?.map(...).join('\n\n') || ''   (the empty string is <<>>)
conversationContext(memories) ==
  IF IsNull(memories) THEN <<>>
  ELSE [i \in 1..Len(Val(memories)) |-> RenderTurn(Val(memories)[i])]

\* variant: the 'Previous conversation:' block is always written
buildSystemPrompt_alwaysBlock(personalityData, context) ==
  LET core == personalityData.core_identity
      name == IF IsNull(core) THEN "AI Artwork" ELSE Val(core).name
      voice == IF IsNull(core) THEN "contemplative" ELSE Val(core).artistic_voice
      traits == IF IsNull(core) THEN <<"thoughtful", "creative">>
                ELSE Val(core).personality_traits
  IN  <<[part |-> "persona", name |-> name, voice |-> voice, traits |-> traits],
        [part |-> "Previous conversation:", turns |-> context],
        [part |-> "instructions"]>>

\* lines 270-281
buildSystemPrompt(personalityData, context) ==
  LET core == personalityData.core_identity
      name == IF IsNull(core) THEN "AI Artwork" ELSE Val(core).name
      voice == IF IsNull(core) THEN "contemplative" ELSE Val(core).artistic_voice
      traits == IF IsNull(core) THEN <<"thoughtful", "creative">>
                ELSE Val(core).personality_traits
  IN  <<[part |-> "persona", name |-> name, voice |-> voice, traits |-> traits]>>
      \o (IF context # <<>>
          THEN <<[part |-> "Previous conversation:", turns |-> context]>>
          ELSE <<>>)
      \o <<[part |-> "instructions"]>>

\* `${systemPrompt}\n\nUser: ${sanitizedMessage}\n\nAI:`
GenerationText(systemPrompt, sanitizedMessage) ==
  systemPrompt \o <<[part |-> "User:", text |-> sanitizedMessage],
                    [part |-> "AI:"]>>

(* ------------------------------- state -------------------------------- *)
VARIABLES
  env,                  \* the environment variables that are set
  load,                 \* the load this behaviour is run under
  user_sessions,        \* table user_sessions, in insertion order
  conversation_memory,  \* table conversation_memory, in insertion order
  req,                  \* the invocation running in each slot
  received,             \* requests received so far; also the wall clock
  faults                \* store calls that have failed so far

vars == <<env, load, user_sessions, conversation_memory, req, received, faults>>

EnvNames == {"SUPABASE_URL", "SUPABASE_ANON_KEY", "GEMINI_API_KEY"}

\* deployments: fully configured, or with one variable missing
Environments == {EnvNames} \cup {EnvNames \ {n} : n \in EnvNames}

Idle ==
  [pc |-> "idle", serial |-> 0, method |-> "", body |-> Null,
   sanitizedMessage |-> <<>>, sessionToken |-> "", session |-> Null,
   personality |-> Null, memories |-> Null, text |-> Null,
   aiResponse |-> Null, response |-> Null, calls |-> <<>>, failed |-> {}]

Init ==
  /\ env \in Environments
  /\ load \in Loads
  /\ (Unfailing(load) => env = EnvNames)
  /\ user_sessions = <<>>
  /\ conversation_memory = <<>>
  /\ req = [r \in Slots |-> Idle]
  /\ received = 0
  /\ faults = 0

(* ----------------------------- responses ------------------------------ *)
\* createApiResponse(false, null, createApiError(code, ...)) with a status
ErrorResponse(status, code) ==
  [status |-> status, success |-> FALSE, code |-> code, data |-> Null]

\* createApiResponse(true, data) with status 200
SuccessResponse(data) ==
  [status |-> 200, success |-> TRUE, code |-> "", data |-> Some(data)]

\* the catch block of lines 253-266
InternalError == ErrorResponse(500, "INTERNAL_ERROR")

\* JavaScript falsiness of body[f]: the key is absent or the string is empty
Falsy(body, f) ==
  \/ f \notin body.fields
  \/ (f = "message" /\ body.message = <<>>)
  \/ (f = "personality_id" /\ body.personality_id = "")
  \/ (f = "session_token" /\ body.session_token = "")

\* variant: if (!body.message)
MissingRequired_messageOnly(body) == Falsy(body, "message")

\* if (!body.message || !body.personality_id)
MissingRequired(body) == Falsy(body, "message") \/ Falsy(body, "personality_id")

\* personalityData?.core_identity?.name || personality.gallery_items?.title
DisplayName(p) ==
  IF IsNull(p.personality_data.core_identity) THEN p.title
  ELSE Val(p.personality_data.core_identity).name

\* new Response('ok', ...) of the CORS preflight
PreflightResponse ==
  [status |-> 200, success |-> TRUE, code |-> "ok", data |-> Null]

\* the invocation q, returned with the response resp: what stays is the
\* request, the response and the record of the calls made; the handler's
\* other locals are gone
Respond(q, resp) ==
  [q EXCEPT !.pc = "done", !.response = Some(resp),
            !.sanitizedMessage = <<>>, !.session = Null, !.personality = Null,
            !.memories = Null, !.text = Null]

\* a store call may fail while the fault budget lasts
MayFail(fault) == fault => faults < FaultsOf(load)
Count(fault) == IF fault THEN faults + 1 ELSE faults

\* a generated token collides with no token the store or a request holds
IsFresh(tok) ==
  /\ SessionsWithToken(user_sessions, tok) = <<>>
  /\ \A r \in Slots : req[r].sessionToken # tok

(* ------------------------ handler, step by step ----------------------- *)
\* lines 69-119: method dispatch, body parse, validation, sanitizing,
\* session token, store client.  `body` is Null when request.json() throws.
Receive(r, method, body, generated) ==
  /\ req[r].pc \in {"idle", "done"}
  /\ r <= SlotsOf(load)
  /\ \A q \in Slots : q < r => req[q].pc \notin {"idle", "done"}
  /\ received < RequestsOf(load)
  /\ method \in MethodsOf(load)
  /\ body \in BodiesOf(load)
  /\ generated \in GeneratedTokens
  /\ (~IsNull(body) /\ Falsy(Val(body), "session_token")) => IsFresh(generated)
  /\ received' = received + 1
  /\ (method # "POST" => IsNull(body))
  /\ LET fresh == [Idle EXCEPT !.serial = received + 1, !.method = method,
                               !.body = body]
     IN req' = [req EXCEPT ![r] =
          IF method = "OPTIONS" THEN Respond(fresh, PreflightResponse)
          ELSE IF method # "POST"
            THEN Respond(fresh, ErrorResponse(405, "METHOD_NOT_ALLOWED"))
          ELSE IF IsNull(body) THEN Respond(fresh, InternalError)
          ELSE IF MissingRequired(Val(body))
            THEN Respond(fresh, ErrorResponse(400, "INVALID_REQUEST"))
          ELSE LET accepted ==
                     [fresh EXCEPT
                        !.sanitizedMessage = sanitizeInput(Val(body).message),
                        !.sessionToken =
                           IF Falsy(Val(body), "session_token") THEN generated
                           ELSE Val(body).session_token]
               IN IF {"SUPABASE_URL", "SUPABASE_ANON_KEY"} \subseteq env
                  THEN [accepted EXCEPT !.pc = "select_session"]
                  ELSE Respond(accepted, InternalError)]
  /\ UNCHANGED <<env, load, user_sessions, conversation_memory, faults>>

\* lines 121-126: read the session record
SelectSession(r, fault) ==
  /\ req[r].pc = "select_session"
  /\ MayFail(fault)
  /\ LET found == selectSession(user_sessions, req[r].sessionToken, fault)
     IN req' = [req EXCEPT ![r] =
          [@ EXCEPT !.session = found,
                    !.calls = Append(@, "session_select"),
                    !.failed = IF fault THEN @ \cup {"session_select"} ELSE @,
                    !.pc = IF IsNull(found) THEN "insert_session"
                           ELSE "select_personality"]]
  /\ faults' = Count(fault)
  /\ UNCHANGED <<env, load, user_sessions, conversation_memory, received>>

\* lines 128-140: create the session record when the read returned none
InsertSession(r, fault) ==
  /\ req[r].pc = "insert_session"
  /\ MayFail(fault)
  /\ LET row == newSessionRow(req[r].sessionToken, received)
         after == insertSession(user_sessions, row, fault)
         inserted == after # user_sessions
     IN /\ user_sessions' = after
        /\ req' = [req EXCEPT ![r] =
             [@ EXCEPT !.session = IF inserted THEN Some(row) ELSE Null,
                       !.calls = Append(@, "session_insert"),
                       !.failed = IF inserted THEN @
                                  ELSE @ \cup {"session_insert"},
                       !.pc = "select_personality"]]
  /\ faults' = Count(fault)
  /\ UNCHANGED <<env, load, conversation_memory, received>>

\* lines 142-157: read the personality; 404 when the read returned none
SelectPersonality(r, fault) ==
  /\ req[r].pc = "select_personality"
  /\ MayFail(fault)
  /\ LET found == selectPersonality(Val(req[r].body).personality_id, fault)
         next == [req[r] EXCEPT
                    !.personality = found,
                    !.calls = Append(@, "personality_select"),
                    !.failed = IF fault THEN @ \cup {"personality_select"}
                               ELSE @]
     IN req' = [req EXCEPT ![r] =
          IF IsNull(found)
          THEN Respond(next, ErrorResponse(404, "PERSONALITY_NOT_FOUND"))
          ELSE [next EXCEPT !.pc = "load_memory"]]
  /\ faults' = Count(fault)
  /\ UNCHANGED <<env, load, user_sessions, conversation_memory, received>>

\* lines 159-180: read the memory window, build the context and the prompt
LoadMemory(r, fault) ==
  /\ req[r].pc = "load_memory"
  /\ MayFail(fault)
  /\ LET memories == loadMemories(conversation_memory, req[r].sessionToken,
                                  Val(req[r].body).personality_id, fault)
         context == conversationContext(memories)
         next == [req[r] EXCEPT
                    !.memories = memories,
                    !.calls = Append(@, "memory_select"),
                    !.failed = IF fault THEN @ \cup {"memory_select"} ELSE @]
     IN req' = [req EXCEPT ![r] =
          IF "GEMINI_API_KEY" \notin env
          THEN Respond(next, InternalError)
          ELSE [next EXCEPT !.pc = "generate", !.text =
                  Some(GenerationText(
                    buildSystemPrompt(Val(req[r].personality).personality_data,
                                      context),
                    req[r].sanitizedMessage))]]
  /\ faults' = Count(fault)
  /\ UNCHANGED <<env, load, user_sessions, conversation_memory, received>>

\* variant: the reply is taken without the test of line 208
usableReply_unchecked(ok, aiResponse) == ok /\ ~IsNull(aiResponse)

\* lines 201-210: the generation answered with a success status and the
\* trimmed text of its first candidate is a non-empty string
usableReply(ok, aiResponse) ==
  ok /\ ~IsNull(aiResponse) /\ Val(aiResponse) # <<>>

\* variant: the reply is returned without recording the turn
afterGeneration_skipInsert == "update_session"

\* lines 205-226: a usable reply is followed by the memory insert
afterGeneration == "insert_memory"

\* lines 182-210: the generation call.  `ok` is geminiResponse.ok (a fetch
\* that throws ends in the same catch block); `candidate` the first text.
Generate(r, ok, candidate) ==
  /\ req[r].pc = "generate"
  /\ (~ok => IsNull(candidate))
  /\ (Unfailing(load) => ok)
  /\ candidate \in CandidatesOf(load)
  /\ LET aiResponse == IF IsNull(candidate) THEN Null
                       ELSE Some(Trim(Val(candidate)))
         next == [req[r] EXCEPT !.calls = Append(@, "generate"),
                                !.aiResponse = aiResponse]
     IN req' = [req EXCEPT ![r] =
          IF usableReply(ok, aiResponse)
          THEN [next EXCEPT !.pc = afterGeneration]
          ELSE Respond(next, InternalError)]
  /\ UNCHANGED <<env, load, user_sessions, conversation_memory, received, faults>>

\* variant: the row holds the message as it came in
memoryRow_rawMessage(q) ==
  [created_at |-> 0,
   session_token |-> q.sessionToken,
   gallery_item_id |-> Val(q.personality).gallery_item_id,
   personality_id |-> Val(q.body).personality_id,
   user_message |-> Val(q.body).message,
   ai_response |-> Val(q.aiResponse),
   topics_discussed |-> extractTopics(q.sanitizedMessage),
   turn |-> q.serial]

\* the row of lines 215-226
memoryRow(q) ==
  [created_at |-> 0,
   session_token |-> q.sessionToken,
   gallery_item_id |-> Val(q.personality).gallery_item_id,
   personality_id |-> Val(q.body).personality_id,
   user_message |-> q.sanitizedMessage,
   ai_response |-> Val(q.aiResponse),
   topics_discussed |-> extractTopics(q.sanitizedMessage),
   turn |-> q.serial]

\* variant: a failed insert is issued again
afterMemoryInsert_retry(fault) ==
  IF fault THEN "insert_memory" ELSE "update_session"

\* lines 213-229: the awaited insert is followed by the session update,
\* whatever the insert returned
afterMemoryInsert(fault) == "update_session"

\* lines 212-226: record the turn; the result of the insert is not looked at
InsertMemory(r, fault) ==
  /\ req[r].pc = "insert_memory"
  /\ MayFail(fault)
  /\ conversation_memory' =
       insertMemory(conversation_memory, memoryRow(req[r]), fault)
  /\ req' = [req EXCEPT ![r] =
       [@ EXCEPT !.calls = Append(@, "memory_insert"),
                 !.failed = IF fault THEN @ \cup {"memory_insert"} ELSE @,
                 !.pc = afterMemoryInsert(fault)]]
  /\ faults' = Count(fault)
  /\ UNCHANGED <<env, load, user_sessions, received>>

\* (session?.total_conversations || 0) + 1
nextTotal(session) ==
  (IF IsNull(session) THEN 0 ELSE Val(session).total_conversations) + 1

\* variant: a failed write is thrown and caught by the catch block
finalResponse_checkedWrites(q) ==
  IF q.failed \cap {"memory_insert", "session_update"} # {} THEN InternalError
  ELSE SuccessResponse(
         [message |-> Val(q.aiResponse),
          session_token |-> q.sessionToken,
          personality |-> [id |-> Val(q.personality).id,
                           name |-> DisplayName(Val(q.personality))]])

\* lines 237-251: the success response; the results of the two writes are
\* not looked at
finalResponse(q) ==
  SuccessResponse(
    [message |-> Val(q.aiResponse),
     session_token |-> q.sessionToken,
     personality |-> [id |-> Val(q.personality).id,
                      name |-> DisplayName(Val(q.personality))]])

\* lines 228-251: update the session record from the session read at the
\* start, then answer
UpdateSession(r, fault) ==
  /\ req[r].pc = "update_session"
  /\ MayFail(fault)
  /\ user_sessions' = updateSession(user_sessions, req[r].sessionToken,
                                    received, nextTotal(req[r].session), fault)
  /\ LET next == [req[r] EXCEPT
                    !.calls = Append(@, "session_update"),
                    !.failed = IF fault THEN @ \cup {"session_update"} ELSE @]
     IN req' = [req EXCEPT ![r] = Respond(next, finalResponse(next))]
  /\ faults' = Count(fault)
  /\ UNCHANGED <<env, load, conversation_memory, received>>

Next ==
  \/ \E r \in Slots, method \in MethodsOf(load), body \in BodiesOf(load),
        generated \in GeneratedTokens :
       Receive(r, method, body, generated)
  \/ \E r \in Slots, fault \in BOOLEAN : SelectSession(r, fault)
  \/ \E r \in Slots, fault \in BOOLEAN : InsertSession(r, fault)
  \/ \E r \in Slots, fault \in BOOLEAN : SelectPersonality(r, fault)
  \/ \E r \in Slots, fault \in BOOLEAN : LoadMemory(r, fault)
  \/ \E r \in Slots, ok \in BOOLEAN, candidate \in CandidateTexts :
       Generate(r, ok, candidate)
  \/ \E r \in Slots, fault \in BOOLEAN : InsertMemory(r, fault)
  \/ \E r \in Slots, fault \in BOOLEAN : UpdateSession(r, fault)

Spec == Init /\ [][Next]_vars

(* ----------------------- vocabulary of the claims --------------------- *)
Done(r) == req[r].pc = "done"
Response(r) == Val(req[r].response)

\* r holds a POST request whose JSON body was parsed
Parsed(r) == req[r].method = "POST" /\ ~IsNull(req[r].body)

\* r holds a request that passed validation and got a store client
Accepted(r) ==
  /\ Parsed(r)
  /\ ~MissingRequired(Val(req[r].body))
  /\ {"SUPABASE_URL", "SUPABASE_ANON_KEY"} \subseteq env

Quiescent == \A r \in Slots : req[r].pc \in {"idle", "done"}

RowsOfSession(tok) ==
  Len(SelectSeq(conversation_memory, LAMBDA m : m.session_token = tok))

HasCall(r, c) == \E i \in 1..Len(req[r].calls) : req[r].calls[i] = c

\* the turns of the 'Previous conversation:' block of a generation text
PreviousTurns(text) ==
  LET idx == {i \in 1..Len(text) : text[i].part = "Previous conversation:"}
  IN IF idx = {} THEN Null ELSE Some(text[CHOOSE i \in idx : TRUE].turns)

Reverse(s) == [i \in 1..Len(s) |-> s[Len(s) + 1 - i]]

\* rows by ascending created_at
OrderAsc(rows) == Reverse(OrderDesc(rows))

StoreReads == {"session_select", "personality_select", "memory_select"}

CatalogIds == {p.id : p \in artwork_personalities}

(* ------------------------------- claims ------------------------------- *)

\* C1: whenever no request is in flight and no store call has failed, every
\* session's total_conversations equals the number of conversation_memory
\* rows recorded for its token.
C1_TurnCountEqualsRows ==
  (Quiescent /\ faults = 0) =>
    \A i \in 1..Len(user_sessions) :
      user_sessions[i].total_conversations =
        RowsOfSession(user_sessions[i].session_token)

\* C2: when the memory window of a request is non-empty, the 'Previous
\* conversation:' block of its generation text lists the window's turns
\* oldest first (ascending created_at).
C2_PromptOldestFirst ==
  \A r \in Slots :
    (/\ ~IsNull(req[r].text)
     /\ ~IsNull(req[r].memories)
     /\ Val(req[r].memories) # <<>>)
    => /\ ~IsNull(PreviousTurns(Val(req[r].text)))
       /\ Val(PreviousTurns(Val(req[r].text))) =
            LET asc == OrderAsc(Val(req[r].memories))
            IN [i \in 1..Len(asc) |-> RenderTurn(asc[i])]

\* C3: a request whose personality_id matches no personality is answered
\* with 404 PERSONALITY_NOT_FOUND and has inserted no session, inserted no
\* memory row, updated no session and made no generation call.
C3_NotFoundNoSideEffects ==
  \A r \in Slots :
    (/\ Done(r)
     /\ Accepted(r)
     /\ Val(req[r].body).personality_id \notin CatalogIds)
    => /\ Response(r).status = 404
       /\ Response(r).code = "PERSONALITY_NOT_FOUND"
       /\ ~HasCall(r, "session_insert")
       /\ ~HasCall(r, "memory_insert")
       /\ ~HasCall(r, "session_update")
       /\ ~HasCall(r, "generate")

\* C4: no step, under any interleaving of requests and without any failed
\* store call, lowers the total_conversations of a session record.
C4_TurnCountNeverDecreases ==
  [][faults' = 0 =>
       \A i \in 1..Len(user_sessions) :
         /\ i <= Len(user_sessions')
         /\ user_sessions'[i].total_conversations >=
              user_sessions[i].total_conversations]_vars

\* C5: under any interleaving and without any failed store call, a token has
\* at most one session record and every request that is past the session
\* get-or-create holds a session (non-null).
C5_GetOrCreateAtomic ==
  faults = 0 =>
    /\ \A t \in Tokens \cup GeneratedTokens :
         Len(SessionsWithToken(user_sessions, t)) <= 1
    /\ \A r \in Slots :
         req[r].pc \in {"select_personality", "load_memory", "generate",
                        "insert_memory", "update_session"}
         => ~IsNull(req[r].session)

\* C6: a request one of whose store reads (session, personality, memory
\* window) failed is answered with 500 INTERNAL_ERROR.
C6_ReadFailureIsInternalError ==
  \A r \in Slots :
    (Done(r) /\ req[r].failed \cap StoreReads # {})
    => /\ Response(r).status = 500
       /\ Response(r).code = "INTERNAL_ERROR"

\* C7: every entry of the memory window of a request has the request's
\* session token and personality_id, and every turn of the 'Previous
\* conversation:' block renders a stored entry of that session and
\* personality.
C7_WindowScoped ==
  \A r \in Slots :
    /\ ~IsNull(req[r].memories) =>
         \A i \in 1..Len(Val(req[r].memories)) :
           /\ Val(req[r].memories)[i].session_token = req[r].sessionToken
           /\ Val(req[r].memories)[i].personality_id =
                Val(req[r].body).personality_id
    /\ (~IsNull(req[r].text) /\ ~IsNull(PreviousTurns(Val(req[r].text)))) =>
         LET turns == Val(PreviousTurns(Val(req[r].text)))
         IN \A i \in 1..Len(turns) :
              \E j \in 1..Len(conversation_memory) :
                /\ RenderTurn(conversation_memory[j]) = turns[i]
                /\ conversation_memory[j].session_token = req[r].sessionToken
                /\ conversation_memory[j].personality_id =
                     Val(req[r].body).personality_id

\* C7 witness: a non-empty window was loaded while the store also holds an
\* entry of the same session recorded under another personality.
C7_Witness ==
  \E r \in Slots :
    /\ ~IsNull(req[r].text)
    /\ ~IsNull(req[r].memories)
    /\ Val(req[r].memories) # <<>>
    /\ \E j \in 1..Len(conversation_memory) :
         /\ conversation_memory[j].session_token = req[r].sessionToken
         /\ conversation_memory[j].personality_id #
              Val(req[r].body).personality_id

\* C8: the step that answers a POST request whose message or personality_id
\* is empty or missing answers 400 INVALID_REQUEST, has made no store call
\* and no generation call, and leaves both tables unchanged.
C8_InvalidRequestNoEffects ==
  [][\A r \in Slots :
       (/\ req'[r] # req[r]
        /\ req'[r].pc = "done"
        /\ req'[r].method = "POST"
        /\ ~IsNull(req'[r].body)
        /\ (Falsy(Val(req'[r].body), "message")
            \/ Falsy(Val(req'[r].body), "personality_id")))
       => /\ Val(req'[r].response).status = 400
          /\ Val(req'[r].response).code = "INVALID_REQUEST"
          /\ req'[r].calls = <<>>
          /\ user_sessions' = user_sessions
          /\ conversation_memory' = conversation_memory]_vars

\* C8 witness: a POST request without personality_id has been answered.
C8_Witness ==
  \E r \in Slots :
    /\ Done(r)
    /\ Parsed(r)
    /\ "personality_id" \notin Val(req[r].body).fields
    /\ "message" \in Val(req[r].body).fields
    /\ Response(r).status = 400

\* C9: session records are never removed, a token never has two records and
\* first_visit never changes; a session select or session insert made for a
\* token that already has a record leaves the table unchanged.
C9_KnownTokenResolveIsReadOnly ==
  [][/\ \A i \in 1..Len(user_sessions) :
          /\ i <= Len(user_sessions')
          /\ user_sessions'[i].session_token = user_sessions[i].session_token
          /\ user_sessions'[i].first_visit = user_sessions[i].first_visit
     /\ \A t \in Tokens \cup GeneratedTokens :
          Len(SessionsWithToken(user_sessions', t)) <= 1
     /\ \A r \in Slots :
          (/\ req[r].pc \in {"select_session", "insert_session"}
           /\ req'[r] # req[r]
           /\ SessionsWithToken(user_sessions, req[r].sessionToken) # <<>>)
          => user_sessions' = user_sessions]_vars

\* C9 witness: a later request has resolved a known token to its record
\* without a session insert, the record being the only one of its token.
C9_Witness ==
  \E r \in Slots :
    /\ req[r].serial >= 2
    /\ req[r].pc = "select_personality"
    /\ ~IsNull(req[r].session)
    /\ ~HasCall(r, "session_insert")
    /\ Val(req[r].session).first_visit < req[r].serial
    /\ Len(SessionsWithToken(user_sessions, req[r].sessionToken)) = 1

\* the conversation_memory rows recorded by the request in slot r
TurnRows(r) ==
  SelectSeq(conversation_memory, LAMBDA m : m.turn = req[r].serial)

\* r's generation returned usable text and one of its two writes failed
WriteFailedAfterReply(r) ==
  /\ Done(r)
  /\ HasCall(r, "memory_insert")
  /\ req[r].failed \cap {"memory_insert", "session_update"} # {}

RepliedWithSuccess(r) ==
  /\ Response(r).status = 200
  /\ Response(r).success
  /\ Val(Response(r).data).message = Val(req[r].aiResponse)

\* C10 as stated: if generation returned usable text and the memory insert
\* or the session update failed, the answer is success (200) with the reply
\* and the store holds no memory row of that turn.
C10_Original ==
  \A r \in Slots :
    WriteFailedAfterReply(r) => (RepliedWithSuccess(r) /\ TurnRows(r) = <<>>)

\* C10 as amended: if generation returned usable text and the memory insert
\* or the session update failed, the answer is success (200) with the reply;
\* the store holds no memory row of that turn when the insert failed, and
\* exactly one when only the session update failed.
C10_SuccessDespiteFailedWrite ==
  \A r \in Slots :
    WriteFailedAfterReply(r) =>
      /\ RepliedWithSuccess(r)
      /\ ("memory_insert" \in req[r].failed => TurnRows(r) = <<>>)
      /\ ("memory_insert" \notin req[r].failed => Len(TurnRows(r)) = 1)

\* C10 witness: a request whose memory insert failed was answered 200.
C10_Witness ==
  \E r \in Slots :
    /\ WriteFailedAfterReply(r)
    /\ "memory_insert" \in req[r].failed
    /\ Response(r).status = 200
    /\ TurnRows(r) = <<>>

\* r's generation call was made and gave no usable reply: a non-success
\* status (no text is read) or a first-candidate text empty after trimming
GenerationFailed(r) ==
  /\ HasCall(r, "generate")
  /\ (IsNull(req[r].aiResponse) \/ Val(req[r].aiResponse) = <<>>)

\* C11: a request whose generation call returned a non-success status, or
\* a success status with no usable first-candidate text, is answered with
\* INTERNAL_ERROR (500); it made no memory insert and no session update and
\* the store holds no memory row of that turn.
C11_GenerationFailureIsInternalError ==
  \A r \in Slots :
    GenerationFailed(r) =>
      /\ Done(r)
      /\ Response(r) = InternalError
      /\ ~HasCall(r, "memory_insert")
      /\ ~HasCall(r, "session_update")
      /\ TurnRows(r) = <<>>

\* C11 witness: a generation that answered with whitespace only ended in
\* INTERNAL_ERROR on a session that already exists.
C11_Witness ==
  \E r \in Slots :
    /\ GenerationFailed(r)
    /\ req[r].aiResponse = Some(<<>>)
    /\ Response(r).status = 500
    /\ SessionsWithToken(user_sessions, req[r].sessionToken) # <<>>

\* C12: in every reachable state, every conversation_memory row carries a
\* session_token for which a user_sessions row exists.
C12_MemoryRowsHaveSession ==
  \A i \in 1..Len(conversation_memory) :
    SessionsWithToken(user_sessions,
                      conversation_memory[i].session_token) # <<>>

\* r was answered with the success envelope of lines 237-251
Succeeded(r) ==
  /\ Done(r)
  /\ req[r].method = "POST"
  /\ Response(r).status = 200
  /\ ~IsNull(Response(r).data)

\* C13: a request answered with success, all of whose store operations
\* succeeded, has exactly one conversation_memory row; the row carries the
\* session_token of the response and the personality_id of the request and
\* holds the sanitized user message and the generated reply.  No step of any
\* request changes or removes a row that is already stored.
C13_OneRowPerSuccessfulTurn ==
  /\ [](\A r \in Slots :
          (Succeeded(r) /\ req[r].failed = {}) =>
            /\ Len(TurnRows(r)) = 1
            /\ LET m == TurnRows(r)[1]
                   b == Val(req[r].body)
                   d == Val(Response(r).data)
               IN /\ m.session_token = d.session_token
                  /\ m.personality_id = b.personality_id
                  /\ m.user_message = Trim(Slice(b.message, MaxMessageLength))
                  /\ m.ai_response = d.message)
  /\ [][/\ Len(conversation_memory') >= Len(conversation_memory)
        /\ \A i \in 1..Len(conversation_memory) :
             conversation_memory'[i] = conversation_memory[i]]_vars

\* C13 witness: a successful request with surrounding whitespace in its
\* message has its row in a store that already held an earlier row.
C13_Witness ==
  \E r \in Slots :
    /\ Succeeded(r) /\ req[r].failed = {}
    /\ Val(req[r].body).message # Trim(Val(req[r].body).message)
    /\ Len(TurnRows(r)) = 1
    /\ TurnRows(r)[1].created_at > 1

\* the conversation_memory rows stored for r's session token and personality
StoredFor(r) ==
  SelectSeq(conversation_memory,
            LAMBDA m : /\ m.session_token = req[r].sessionToken
                       /\ m.personality_id = Val(req[r].body).personality_id)

\* r's step is the read of the memory window
ReadsWindow(r) == req[r].pc = "load_memory" /\ req'[r].pc # "load_memory"

\* r's step reads the memory window, the read does not fail and the request
\* goes on with the window
LoadsWindow(r) ==
  /\ ReadsWindow(r)
  /\ req'[r].pc = "generate"
  /\ "memory_select" \notin req'[r].failed

\* C14: the memory window a request loads holds min(n, 10) rows, n being the
\* number of rows stored for the request's session token and personality:
\* they are stored rows of that pair, listed by strictly decreasing
\* created_at, and no stored row of the pair left out is newer than a row of
\* the window.  With no stored history the window is empty and the request
\* does not fail on that account: it goes on to the generation call (the
\* step that follows, unless the generation API key is not configured).
C14_WindowIsNewestTen ==
  [][/\ \A r \in Slots :
          LoadsWindow(r) =>
            LET stored == StoredFor(r)
                n == Len(stored)
                window == Val(req'[r].memories)
                InWindow(m) == \E i \in 1..Len(window) : window[i] = m
            IN /\ ~IsNull(req'[r].memories)
               /\ Len(window) = Min(n, MemoryLimit)
               /\ \A i \in 1..Len(window) :
                    \E j \in 1..n : stored[j] = window[i]
               /\ \A i \in 1..(Len(window) - 1) :
                    window[i].created_at > window[i + 1].created_at
               /\ \A j \in 1..n :
                    ~InWindow(stored[j]) =>
                      \A i \in 1..Len(window) :
                        stored[j].created_at < window[i].created_at
               /\ (n = 0 => window = <<>>)
     /\ \A r \in Slots :
          (ReadsWindow(r) /\ StoredFor(r) = <<>> /\ "GEMINI_API_KEY" \in env)
            => req'[r].pc = "generate"]_vars

\* C14 witness: a request holds a window of 10 rows although more than 10
\* rows are stored for its session token and personality.
C14_Witness ==
  \E r \in Slots :
    /\ req[r].pc = "generate"
    /\ ~IsNull(req[r].memories)
    /\ Len(Val(req[r].memories)) = MemoryLimit
    /\ Len(StoredFor(r)) > MemoryLimit

\* the number of calls c that r has made
CallCount(r, c) ==
  Cardinality({i \in 1..Len(req[r].calls) : req[r].calls[i] = c})

\* C15: whatever failures occur, a request makes at most one generation
\* call, at most one memory insert, at most one session insert and at most
\* one session update; no store read is issued twice either: no call occurs
\* twice among the calls of a request.
C15_NoRetries ==
  \A r \in Slots :
    \A i, j \in 1..Len(req[r].calls) :
      i < j => req[r].calls[i] # req[r].calls[j]

\* C15 witness: a request whose memory insert failed went on to the session
\* update and returned, having issued the insert once.
C15_Witness ==
  \E r \in Slots :
    /\ Done(r)
    /\ "memory_insert" \in req[r].failed
    /\ CallCount(r, "memory_insert") = 1
    /\ CallCount(r, "session_update") = 1

\* r has built its generation text
HasPrompt(r) == ~IsNull(req[r].text)

\* the memory window r loaded holds at least one row
WindowNonEmpty(r) == ~IsNull(req[r].memories) /\ Val(req[r].memories) # <<>>

\* C16: the generation text of a request contains a 'Previous conversation:'
\* block exactly when the memory window the request loaded is non-empty; with
\* an empty window, or with none because the read failed, the text has no
\* such block.
C16_HistoryBlockIffWindow ==
  \A r \in Slots :
    HasPrompt(r) =>
      (~IsNull(PreviousTurns(Val(req[r].text))) <=> WindowNonEmpty(r))

\* C16 witness: a request on a session with recorded turns read them into its
\* window and its generation text carries the block.
C16_Witness ==
  \E r \in Slots :
    /\ HasPrompt(r)
    /\ WindowNonEmpty(r)
    /\ ~IsNull(PreviousTurns(Val(req[r].text)))

\* total_conversations of the session row with token tok in table rows
TotalOf(rows, tok) == SessionsWithToken(rows, tok)[1].total_conversations

\* r's step completes, with success and without a failed store call, a turn
\* on a session that r found stored when it resolved its token
CompletesTurnOnExistingSession(r) ==
  /\ req[r].pc = "update_session"
  /\ req'[r].pc = "done"
  /\ Val(req'[r].response).status = 200
  /\ req'[r].failed = {}
  /\ ~HasCall(r, "session_insert")

\* C17: each turn completed with success on a session that existed before
\* the request leaves the session's total_conversations exactly one greater
\* than it was just before the turn was counted, under every interleaving of
\* the requests (so that k such turns add exactly k).
C17_EachTurnAddsOne ==
  [][\A r \in Slots :
       CompletesTurnOnExistingSession(r) =>
         TotalOf(user_sessions', req[r].sessionToken)
           = TotalOf(user_sessions, req[r].sessionToken) + 1]_vars

\* r's memory insert was made and did not fail
Appended(r) ==
  HasCall(r, "memory_insert") /\ "memory_insert" \notin req[r].failed

\* r1 and r2 are requests on the same session token and personality
SameConversation(r1, r2) ==
  /\ req[r1].sessionToken = req[r2].sessionToken
  /\ Val(req[r1].body).personality_id = Val(req[r2].body).personality_id

\* C18: when two overlapping requests on the same session token and
\* personality have both appended their turn, the store holds the row of
\* each, as two different rows, from then on and so when both have been
\* answered with success: neither append overwrites or removes the other,
\* whatever the interleaving.
C18_ConcurrentAppendsBothKept ==
  \A r1, r2 \in Slots :
    (/\ r1 # r2
     /\ Appended(r1) /\ Appended(r2)
     /\ SameConversation(r1, r2))
    => /\ Len(TurnRows(r1)) = 1
       /\ Len(TurnRows(r2)) = 1
       /\ TurnRows(r1)[1].created_at # TurnRows(r2)[1].created_at

\* C18 witness: two requests in flight on a session that existed before both
\* have read the same non-empty memory window and both have appended.
C18_Witness ==
  \E r1, r2 \in Slots :
    /\ r1 # r2
    /\ req[r1].pc = "update_session" /\ req[r2].pc = "update_session"
    /\ ~HasCall(r1, "session_insert") /\ ~HasCall(r2, "session_insert")
    /\ SameConversation(r1, r2)
    /\ WindowNonEmpty(r1)
    /\ req[r1].memories = req[r2].memories
    /\ Len(TurnRows(r1)) = 1 /\ Len(TurnRows(r2)) = 1

\* the calls of the turn, in the order of the handler's source
StepOrder ==
  <<"session_select", "session_insert", "personality_select",
    "memory_select", "generate", "memory_insert", "session_update">>

\* the place of call c in StepOrder
StepRank(c) == CHOOSE i \in 1..Len(StepOrder) : StepOrder[i] = c

\* C19: the calls of one request are made strictly in the order session
\* resolve (lookup, then insert), personality lookup, memory-window read,
\* generation call, memory insert, session update, and the success response
\* comes last.  A memory insert is made only after the generation call gave
\* non-empty text for a personality that was found, and a success response
\* is returned only after both writes were attempted.
C19_StepsInOrder ==
  \A r \in Slots :
    LET calls == req[r].calls
    IN /\ \A i \in 1..(Len(calls) - 1) :
            StepRank(calls[i]) < StepRank(calls[i + 1])
       /\ HasCall(r, "memory_insert") =>
            /\ HasCall(r, "personality_select")
            /\ "personality_select" \notin req[r].failed
            /\ Val(req[r].body).personality_id \in CatalogIds
            /\ HasCall(r, "generate")
            /\ ~IsNull(req[r].aiResponse)
            /\ Val(req[r].aiResponse) # <<>>
       /\ (Done(r) /\ req[r].method = "POST" /\ Response(r).status = 200)
            => /\ HasCall(r, "memory_insert")
               /\ calls[Len(calls)] = "session_update"

\* C19 witness: a request that had to create its session was answered with
\* success after all seven calls.
C19_Witness ==
  \E r \in Slots :
    /\ Done(r)
    /\ Response(r).status = 200
    /\ req[r].calls = StepOrder

\* the message after 'User:' in a generation text
UserText(text) ==
  text[CHOOSE i \in 1..Len(text) : text[i].part = "User:"].text

\* the first MaxMessageLength characters of msg without the white space
\* that surrounds them, by counting the white space at both ends
FirstCharsTrimmed(msg) ==
  LET n == Min(Len(msg), MaxMessageLength)
      lead == CHOOSE i \in 0..n :
                /\ \A k \in 1..i : IsSpace(msg[k])
                /\ (i = n \/ ~IsSpace(msg[i + 1]))
      trail == CHOOSE j \in 0..n :
                 /\ \A k \in (n - j + 1)..n : IsSpace(msg[k])
                 /\ (j = n \/ ~IsSpace(msg[n - j]))
  IN IF lead = n THEN <<>> ELSE [i \in 1..(n - lead - trail) |-> msg[lead + i]]

\* C20: for every accepted request, the message in the generation text and
\* the user_message of the stored row are the same string: the first 5000
\* characters of the inbound message with the surrounding white space
\* removed.  Its length never exceeds 5000.
C20_SameSanitizedMessage ==
  \A r \in Slots :
    /\ HasPrompt(r) =>
         /\ UserText(Val(req[r].text)) = FirstCharsTrimmed(Val(req[r].body).message)
         /\ Len(UserText(Val(req[r].text))) <= MaxMessageLength
    /\ \A i \in 1..Len(TurnRows(r)) :
         /\ TurnRows(r)[i].user_message
              = FirstCharsTrimmed(Val(req[r].body).message)
         /\ Len(TurnRows(r)[i].user_message) <= MaxMessageLength
         /\ HasPrompt(r) =>
              TurnRows(r)[i].user_message = UserText(Val(req[r].text))

\* C20 witness: a message longer than 5000 characters that begins with white
\* space was cut and trimmed, and the generation text and the stored row
\* hold the same shorter string.
C20_Witness ==
  \E r \in Slots :
    /\ req[r].pc = "update_session"
    /\ Len(Val(req[r].body).message) > MaxMessageLength
    /\ Len(TurnRows(r)) = 1
    /\ TurnRows(r)[1].user_message = UserText(Val(req[r].text))
    /\ Len(TurnRows(r)[1].user_message) < MaxMessageLength
    /\ Len(TurnRows(r)[1].user_message) > 0

\* lexicon entry k occurs in the lower-cased message: its characters stand
\* side by side in it (an entry holds no white space, so the occurrence lies
\* within one white-space-separated token)
TopicOccurs(k, message) ==
  LET topic == commonTopics[k]
  IN \E i \in 1..Len(message) :
       /\ i + Len(topic) - 1 <= Len(message)
       /\ \A j \in 1..Len(topic) : LowerChar(message[i + j - 1]) = topic[j]

\* the topics of the spec's example, in lexicon order
ExampleTopics == <<commonTopics[1], commonTopics[4], commonTopics[5]>>

\* the topics of row m are lexicon topics in lexicon order, each once, and
\* they are exactly the lexicon topics that occur in m's message
TopicsAsClaimed(m) ==
  LET topics == m.topics_discussed
      Place(t) == CHOOSE k \in 1..Len(commonTopics) : commonTopics[k] = t
  IN /\ \A j \in 1..Len(topics) :
          \E k \in 1..Len(commonTopics) : commonTopics[k] = topics[j]
     /\ \A j \in 1..(Len(topics) - 1) : Place(topics[j]) < Place(topics[j + 1])
     /\ \A k \in 1..Len(commonTopics) :
          TopicOccurs(k, m.user_message)
            <=> \E j \in 1..Len(topics) : topics[j] = commonTopics[k]

\* C21: the topics a request stores with its message are exactly the lexicon
\* topics that occur as a substring of a white-space-separated token of the
\* lower-cased message, each once and in lexicon order whatever their order
\* in the message; a message with none is stored with the empty list.
C21_TopicsInLexiconOrder ==
  [][\A i \in (Len(conversation_memory) + 1)..Len(conversation_memory') :
       TopicsAsClaimed(conversation_memory'[i])]_vars

\* C21 witness: the stored message that names color, emotion and art, in
\* that order, has the topics art, color, emotion.
C21_Witness ==
  \E i \in 1..Len(conversation_memory) :
    LET m == conversation_memory[i]
    IN /\ m.topics_discussed = ExampleTopics
       /\ Len(m.user_message) > 20

====
